---- MODULE Spec2Model ----
(***************************************************************************)
(* State-machine model of the ParkingPopup summary card                    *)
(* (buyer/frontend/src/components/map/ParkingPopup.tsx): the rating fetch  *)
(* effect with its AbortController, the reset effect, and the booking      *)
(* eligibility gate (handleBookNow and the PhoneVerifyModal callbacks).    *)
(*                                                                         *)
(* A change of the `space` prop is modelled as one step: React commits the *)
(* render, runs the cleanup of the previous fetch effect, then the reset   *)
(* effect and the fetch effect, in source order.  The only suspension      *)
(* point is the `await axios.get(...)`; everything after it runs to        *)
(* completion in one step.                                                 *)
(***************************************************************************)
EXTENDS Integers, Sequences, FiniteSets, TLC

\* Number of rating fetches (selections of a present id) explored.
MaxFetches == 3
\* Number of booking attempts (calls of handleBookNow) explored.
MaxAttempts == 2

(***************************************************************************)
(* JavaScript values.  Numbers are exact rationals n/d (d > 0); NaN is the *)
(* number with d = 0.                                                      *)
(***************************************************************************)
Undefined == [t |-> "undefined"]
Null == [t |-> "null"]
Bool(b) == [t |-> "boolean", b |-> b]
NaN == [t |-> "number", n |-> 0, d |-> 0]
Abs(x) == IF x < 0 THEN -x ELSE x

RECURSIVE GCD(_, _)
GCD(a, b) == IF b = 0 THEN a ELSE GCD(b, a % b)

\* The number n/d, in lowest terms.
Frac(n, d) ==
    IF d = 0 THEN NaN
    ELSE LET g == GCD(Abs(n), Abs(d))
             s == IF d < 0 THEN -1 ELSE 1
         IN  [t |-> "number", n |-> (s * n) \div g, d |-> Abs(d) \div g]
Num(n) == Frac(n, 1)
Str(s) == [t |-> "string", s |-> s]
\* Infinity and -Infinity are the numbers 1/0 and -1/0.
Infinity == [t |-> "number", n |-> 1, d |-> 0]
IsNaN(v) == v.t = "number" /\ v.d = 0 /\ v.n = 0
\* Number.isFinite(v)
IsFinite(v) == v.t = "number" /\ v.d # 0

\* Number("...") on the string literals the model uses.
StringToNumber(s) ==
    CASE s = ""    -> Num(0)
      [] s = "4"   -> Num(4)
      [] s = "5"   -> Num(5)
      [] s = "7"   -> Num(7)
      [] s = "10"  -> Num(10)
      [] s = "100" -> Num(100)
      [] s = "150" -> Num(150)
      [] OTHER     -> NaN

\* Number(v)
ToNumber(v) ==
    CASE v.t = "number"    -> v
      [] v.t = "string"    -> StringToNumber(v.s)
      [] v.t = "null"      -> Num(0)
      [] OTHER             -> NaN

\* v ?? dflt
Nullish(v, dflt) == IF v.t \in {"undefined", "null"} THEN dflt ELSE v

\* JavaScript truthiness of the values the model uses.
Truthy(v) ==
    CASE v.t = "number"    -> ~IsNaN(v) /\ v.n # 0
      [] v.t = "string"    -> v.s # ""
      [] v.t = "boolean"   -> v.b
      [] v.t \in {"undefined", "null"} -> FALSE
      [] OTHER             -> TRUE

\* a + b and a / b on numbers (NaN is absorbing; x / 0 does not occur).
NumAdd(a, b) ==
    IF IsNaN(a) \/ IsNaN(b) THEN NaN ELSE Frac(a.n * b.d + b.n * a.d, a.d * b.d)
NumDiv(a, b) ==
    IF IsNaN(a) \/ IsNaN(b) THEN NaN ELSE Frac(a.n * b.d, a.d * b.n)

\* a - b, a * b, a < b and a <= b on finite numbers (over the least common
\* denominator, to keep the intermediate integers small).
NumSub(a, b) ==
    LET g == GCD(a.d, b.d)
    IN  Frac(a.n * (b.d \div g) - b.n * (a.d \div g), (a.d \div g) * b.d)
NumMul(a, b) == Frac(a.n * b.n, a.d * b.d)
NumLess(a, b) ==
    LET g == GCD(a.d, b.d) IN a.n * (b.d \div g) < b.n * (a.d \div g)
NumLeq(a, b) ==
    LET g == GCD(a.d, b.d) IN a.n * (b.d \div g) <= b.n * (a.d \div g)

\* +x.toFixed(2) for a finite x: the nearest multiple of 1/100, the larger in
\* magnitude of two equally near ones.  The two decimals are taken one at a time.
ToFixed2(x) ==
    LET a  == Abs(x.n)
        w  == a \div x.d
        r0 == a % x.d
        d1 == (r0 * 10) \div x.d
        r1 == (r0 * 10) % x.d
        d2 == (r1 * 10) \div x.d
        r2 == (r1 * 10) % x.d
        q  == w * 100 + d1 * 10 + d2 + (IF 2 * r2 >= x.d THEN 1 ELSE 0)
    IN  IF ~IsFinite(x) THEN x
        ELSE Frac((IF x.n < 0 THEN -q ELSE q), 100)

(***************************************************************************)
(* Entities (the `space` prop).                                            *)
(***************************************************************************)
\* Entity A with cached rating 3 or 4, entity B with cached rating 4 or none,
\* and the record without an id (nothing selected).
Space(id, rating) ==
    [_id |-> id, rating |-> rating,
     priceParking |-> Undefined, pricePerHour |-> Undefined, price |-> Undefined,
     discount |-> Undefined, discountPercent |-> Undefined,
     __price |-> Undefined, photos |-> Undefined]
Spaces ==
    { Space(Str("A"), Num(3)), Space(Str("A"), Num(4)),
      Space(Str("B"), Num(4)), Space(Str("B"), Undefined),
      Space(Undefined, Undefined) }

\* Number(space?.rating ?? 0)
CachedRating(s) == ToNumber(Nullish(s.rating, Num(0)))

\* !space?._id
IdAbsent(s) == ~Truthy(s._id)

(***************************************************************************)
(* Responses of GET /api/ratings/parking/{id}.                             *)
(***************************************************************************)
RawRating(id, score, comment, fromUser, createdAt) ==
    [t |-> "object", _id |-> id, score |-> score, comment |-> comment,
     fromUser |-> fromUser, createdAt |-> createdAt]
ArrayOf(items) == [t |-> "array", items |-> items]
Stats(avg, count) == [t |-> "object", avg |-> avg, count |-> count]
\* A body that is an array, an object {ratings, stats}, or anything else.
BodyArray(items) == [kind |-> "array", ratings |-> ArrayOf(items), stats |-> Undefined]
BodyObject(ratings, stats) == [kind |-> "object", ratings |-> ratings, stats |-> stats]
BodyOther == [kind |-> "other", ratings |-> Undefined, stats |-> Undefined]

Rec1 == RawRating(Str("r1"), Num(5), Str("good"), Str("u1"), Str("2024-03-01"))
Rec2 == RawRating(Str("r2"), Num(2), Undefined, Undefined, Undefined)

Responses ==
    { BodyArray(<<Rec1>>),
      BodyArray(<<Rec2, Rec1>>),
      BodyArray(<<>>),
      BodyArray(<<Null>>),
      BodyObject(ArrayOf(<<Rec1>>), Stats(Num(2), Num(7))),
      BodyOther }

\* Records whose score is not a number, and bodies with every kind of stats object.
Rec3 == RawRating(Str("r3"), Str("abc"), Str("meh"), Undefined, Str("2024-02-01"))
Rec4 == RawRating(Str("r4"), Str("4"), Undefined, Undefined, Undefined)
Rec5 == RawRating(Str("r5"), Undefined, Undefined, Undefined, Undefined)
\* A record whose score is outside the five-star scale.
Rec6 == RawRating(Str("r6"), Num(9), Undefined, Undefined, Undefined)

StatsResponses ==
    { BodyObject(ArrayOf(<<Rec1>>), Stats(Num(2), Num(7))),
      BodyObject(ArrayOf(<<Rec1>>), Stats(Str("4"), Str("7"))),
      BodyObject(ArrayOf(<<Rec1>>), Stats(Num(4), Undefined)),
      BodyObject(ArrayOf(<<Rec1>>), Stats(Undefined, Num(7))),
      BodyObject(ArrayOf(<<Rec1>>), Stats(Str("4"), Num(7))),
      BodyObject(ArrayOf(<<Rec1>>), Stats(Null, Null)),
      BodyObject(ArrayOf(<<>>), Stats(Undefined, Undefined)),
      BodyObject(ArrayOf(<<>>), Stats(Num(2), Num(7))),
      BodyObject(ArrayOf(<<>>), Undefined),
      BodyObject(Undefined, Stats(Num(2), Num(7))),
      BodyObject(ArrayOf(<<Null>>), Stats(Num(2), Num(7))),
      BodyObject(ArrayOf(<<Rec1>>), Stats(Num(9), Num(-1))),
      BodyObject(ArrayOf(<<>>), Stats(Undefined, Frac(5, 2))),
      BodyArray(<<Rec6>>),
      BodyObject(ArrayOf(<<Rec1, Rec3>>), Null),
      BodyArray(<<Rec1, Rec4>>),
      BodyArray(<<Rec5, Rec2, Rec1>>),
      BodyArray(<<Rec3>>),
      BodyArray(<<>>),
      BodyArray(<<Undefined>>),
      BodyOther }

\* The author of a rating as the server sends it when it is populated.
Author(name, fullName, email, id) ==
    [t |-> "object", name |-> name, fullName |-> fullName, email |-> email, _id |-> id]

\* Records dated before the epoch and on the same day as Rec1, and records with
\* every kind of author.
Rec7 == RawRating(Str("r7"), Num(3), Undefined, Undefined, Str("1969-07-20"))
Rec8 == RawRating(Str("r8"), Num(4), Undefined, Undefined, Str("2024-03-01"))
RecA == RawRating(Str("ra"), Num(5), Undefined,
                  Author(Str("Ann"), Str("Ann Lee"), Str("ann@x.test"), Str("u1")),
                  Str("2024-03-01"))
RecB == RawRating(Str("rb"), Num(4), Undefined,
                  Author(Undefined, Str("Bo Diaz"), Str("bo@x.test"), Str("u2")),
                  Str("2024-02-01"))
RecC == RawRating(Str("rc"), Num(3), Undefined,
                  Author(Str(""), Undefined, Str("cy@x.test"), Str("u3")), Undefined)
RecD == RawRating(Str("rd"), Num(2), Undefined,
                  Author(Undefined, Undefined, Undefined, Str("u4")), Undefined)
RecE == RawRating(Str("re"), Num(1), Undefined, Null, Undefined)
RecF == RawRating(Str("rf"), Num(1), Undefined, Num(42), Undefined)
RecG == RawRating(Str("rg"), Num(1), Undefined, Str(""), Undefined)

ReviewResponses ==
    { BodyArray(<<Rec2, Rec3, Rec1>>),
      BodyArray(<<Rec3, Rec5, Rec1, Rec2>>),
      BodyArray(<<Rec2, Rec7>>),
      BodyArray(<<Rec7, Rec1, Rec2>>),
      BodyArray(<<Rec1, Rec8>>),
      BodyArray(<<Rec8, Rec3, Rec1>>),
      BodyObject(ArrayOf(<<RecB, RecA>>), Undefined),
      BodyObject(ArrayOf(<<RecC, RecD, RecB>>), Null),
      BodyArray(<<RecE, RecF, RecG>>) }

\* Bodies that are neither an array nor an object with a `ratings` array, and
\* carry no stats: a string or null body, {}, {ratings: "none", stats: null},
\* {ratings: null}.
MalformedResponses ==
    { BodyOther,
      BodyObject(Undefined, Undefined),
      BodyObject(Str("none"), Null),
      BodyObject(Null, Undefined) }

ResponseBodies == StatsResponses \cup ReviewResponses \cup MalformedResponses

\* new Date(s).getTime() on the date strings the model uses, in days since the
\* epoch (the order of the millisecond values is kept).
DateToTime(s) ==
    CASE s = "1969-07-20" -> Num(-165)
      [] s = "2024-02-01" -> Num(19754)
      [] s = "2024-03-01" -> Num(19783)
      [] OTHER            -> NaN

(***************************************************************************)
(* fetchRatings: normalisation of a response (lines 125-171).              *)
(***************************************************************************)
\* lines 128-131
RatingsArray(data) ==
    IF data.kind = "array" THEN data.ratings.items
    ELSE IF data.kind = "object" /\ data.ratings.t = "array" THEN data.ratings.items
    ELSE <<>>

\* A stats test that wants both avg and count to be numbers.
HasStats_BothNumeric(data) ==
    /\ data.kind = "object"
    /\ data.stats.t = "object"
    /\ (data.stats.avg.t = "number" /\ data.stats.count.t = "number")

\* line 134
HasStats(data) ==
    /\ data.kind = "object"
    /\ data.stats.t = "object"
    /\ (data.stats.avg.t = "number" \/ data.stats.count.t = "number")

\* A normalisation that reads data.ratings.length without testing the shape: it
\* throws on a body that has no `ratings` array.
Throws_OnMalformed(data) ==
    \/ ~(data.kind = "array" \/ (data.kind = "object" /\ data.ratings.t = "array"))
    \/ \E i \in DOMAIN RatingsArray(data) : RatingsArray(data)[i].t \in {"null", "undefined"}

\* Reading r.score, r.fromUser, ... of a null or undefined element throws.
Throws(data) ==
    \E i \in DOMAIN RatingsArray(data) : RatingsArray(data)[i].t \in {"null", "undefined"}

\* Number(r.score) || 0
ScoreOrZero(r) == IF Truthy(ToNumber(r.score)) THEN ToNumber(r.score) ELSE Num(0)

RECURSIVE SumScores(_)
SumScores(rs) ==
    IF rs = <<>> THEN Num(0)
    ELSE NumAdd(SumScores(SubSeq(rs, 1, Len(rs) - 1)), ScoreOrZero(rs[Len(rs)]))

Max(a, b) == IF a >= b THEN a ELSE b

\* lines 134-144: the pair written by setRatingAvg / setRatingCount
Summary(data, s) ==
    LET arr == RatingsArray(data) IN
    IF HasStats(data)
      THEN [avg   |-> ToNumber(Nullish(data.stats.avg, Num(0))),
            count |-> ToNumber(Nullish(data.stats.count, Num(0)))]
    ELSE IF Len(arr) > 0
      THEN [avg   |-> NumDiv(SumScores(arr), Num(Max(1, Len(arr)))),
            count |-> Num(Len(arr))]
    ELSE [avg |-> CachedRating(s), count |-> Num(0)]

\* An author mapping that prefers the email to the names.
FromUser_EmailFirst(r) ==
    IF r.fromUser.t = "string" THEN r.fromUser
    ELSE IF r.fromUser.t = "object"
      THEN [t |-> "object",
            name |-> IF Truthy(r.fromUser.email) THEN r.fromUser.email
                     ELSE IF Truthy(r.fromUser.name) THEN r.fromUser.name
                     ELSE IF Truthy(r.fromUser.fullName) THEN r.fromUser.fullName
                     ELSE Str("Anonymous"),
            _id |-> r.fromUser._id]
    ELSE Null

\* lines 152-157
FromUser(r) ==
    IF r.fromUser.t = "string" THEN r.fromUser
    ELSE IF r.fromUser.t = "object"
      THEN [t |-> "object",
            name |-> IF Truthy(r.fromUser.name) THEN r.fromUser.name
                     ELSE IF Truthy(r.fromUser.fullName) THEN r.fromUser.fullName
                     ELSE IF Truthy(r.fromUser.email) THEN r.fromUser.email
                     ELSE Str("Anonymous"),
            _id |-> r.fromUser._id]
    ELSE Null

\* lines 148-159
NormalizeReview(r) ==
    [_id |-> r._id,
     score |-> IF Truthy(r.score) THEN ToNumber(r.score) ELSE Num(0),
     comment |-> IF Truthy(r.comment) THEN r.comment ELSE Str(""),
     fromUser |-> FromUser(r),
     createdAt |-> r.createdAt]

\* lines 161-162
ReviewTime(a) ==
    IF Truthy(a.createdAt)
      THEN (IF a.createdAt.t = "string" THEN DateToTime(a.createdAt.s) ELSE NaN)
      ELSE Num(0)

\* A comparator that sorts oldest first.
ComesBefore_Ascending(b, a) ==
    LET ta == ReviewTime(a)
        tb == ReviewTime(b)
    IN  ~IsNaN(ta) /\ ~IsNaN(tb) /\ tb.n * ta.d < ta.n * tb.d

\* `tb - ta > 0`: the comparator puts b before a (a NaN difference is not > 0).
ComesBefore(b, a) ==
    LET ta == ReviewTime(a)
        tb == ReviewTime(b)
    IN  ~IsNaN(ta) /\ ~IsNaN(tb) /\ tb.n * ta.d > ta.n * tb.d

\* Array.prototype.sort is stable: x goes before the first element it must precede.
RECURSIVE InsertReview(_, _)
InsertReview(sorted, x) ==
    IF sorted = <<>> THEN <<x>>
    ELSE IF ComesBefore(x, Head(sorted)) THEN <<x>> \o sorted
    ELSE <<Head(sorted)>> \o InsertReview(Tail(sorted), x)

RECURSIVE SortReviews(_)
SortReviews(rs) ==
    IF rs = <<>> THEN <<>>
    ELSE InsertReview(SortReviews(SubSeq(rs, 1, Len(rs) - 1)), rs[Len(rs)])

\* lines 147-164
Normalized(data) ==
    LET arr == RatingsArray(data)
    IN  SortReviews([i \in DOMAIN arr |-> NormalizeReview(arr[i])])

(***************************************************************************)
(* State.                                                                  *)
(***************************************************************************)
VARIABLES
    mounted,         \* the component is rendered (not yet disposed)
    space,           \* the `space` prop of the last committed render
    ratingAvg,       \* useState, line 63
    ratingCount,     \* useState, line 64
    reviews,         \* useState, line 65
    requests,        \* one entry per run of the fetch effect that called axios.get
    cleanup,         \* index in `requests` of the controller the pending cleanup aborts, 0 if none
    writer,          \* history: index of the request whose completion last wrote the
                     \* rating state, 0 when an effect (reset or absent-id branch) wrote it
    user,            \* the `user` prop
    authUser,        \* useAuth().user
    showPhoneModal,  \* useState, line 61
    subflow,         \* the phone-verification sub-flow: whether it has verified the phone,
                     \* and (history) the user records the gate read when it opened it
    attempts,        \* number of calls of handleBookNow so far
    effects,         \* history: toast, navigate and onClose calls, in order
    startTime,       \* the `startTime` prop
    endTime,         \* the `endTime` prop
    env,             \* the build's API_BASE and CLOUD_NAME (lines 89-90)
    currentImageIndex, \* useState, line 62
    isImageLoaded,   \* useState, line 67
    isAuthenticated, \* Navbar: useAuth().isAuthenticated
    navUser,         \* Navbar: useAuth().user
    lastRef,         \* Navbar: lastRef.current
    refreshCalls     \* history: the refreshUser() calls Navbar made, in order

ratingVars == <<mounted, space, ratingAvg, ratingCount, reviews, requests, cleanup, writer>>
gateVars == <<user, authUser, showPhoneModal, subflow, attempts, effects>>
propVars == <<startTime, endTime, env>>
imageVars == <<currentImageIndex, isImageLoaded>>
navVars == <<isAuthenticated, navUser, lastRef, refreshCalls>>
vars == <<mounted, space, ratingAvg, ratingCount, reviews, requests, cleanup, writer,
          user, authUser, showPhoneModal, subflow, attempts, effects,
          startTime, endTime, env, currentImageIndex, isImageLoaded,
          isAuthenticated, navUser, lastRef, refreshCalls>>

\* What the three rating setters hold.
Visible == [ratingAvg |-> ratingAvg, ratingCount |-> ratingCount, reviews |-> reviews]

\* A fallback that forgets the cached rating.
Fallback_NoCache(s) == [ratingAvg |-> Num(0), ratingCount |-> Num(0), reviews |-> <<>>]

\* lines 94-96, 104-106, 175-177: the cached-rating fallback of entity s
Fallback(s) == [ratingAvg |-> CachedRating(s), ratingCount |-> Num(0), reviews |-> <<>>]

\* A request: the `space` its closure captured, its controller's signal, and what
\* became of it: "pending", "applied" (the success path wrote the state), "failed"
\* (the catch block warned and wrote the fallback) or "suppressed" (returned early).
Request(s) == [space |-> s, aborted |-> FALSE, settled |-> "pending"]

\* A cleanup that aborts nothing.
Abort_Nothing(reqs, i) == reqs

\* line 184: controller.abort() of the effect that is being cleaned up
Abort(reqs, i) == IF i = 0 THEN reqs ELSE [reqs EXCEPT ![i].aborted = TRUE]

(***************************************************************************)
(* The effects keyed by space?._id (lines 92-99 and 101-187).              *)
(***************************************************************************)
\* lines 102-111, 181: the fetch effect issues a request unless the id is absent
IssueFetch(reqs, s) == IF IdAbsent(s) THEN reqs ELSE Append(reqs, Request(s))

\* lines 183-185: the cleanup the fetch effect returns
CleanupOf(reqs, s) == IF IdAbsent(s) THEN 0 ELSE Len(reqs) + 1

\* The effects without the reset of lines 94-96.
RunEffects_NoReset(reqs, prevCleanup, s) ==
    /\ IF IdAbsent(s)
         THEN /\ ratingAvg' = Fallback(s).ratingAvg
              /\ ratingCount' = Fallback(s).ratingCount
              /\ reviews' = Fallback(s).reviews
              /\ writer' = 0
         ELSE UNCHANGED <<ratingAvg, ratingCount, reviews, writer>>
    /\ requests' = IssueFetch(Abort(reqs, prevCleanup), s)
    /\ cleanup' = CleanupOf(reqs, s)
    /\ currentImageIndex' = 0
    /\ isImageLoaded' = FALSE

\* Both effects run for the committed prop s, after the previous cleanup.
RunEffects(reqs, prevCleanup, s) ==
    /\ ratingAvg' = Fallback(s).ratingAvg
    /\ ratingCount' = Fallback(s).ratingCount
    /\ reviews' = Fallback(s).reviews
    /\ requests' = IssueFetch(Abort(reqs, prevCleanup), s)
    /\ cleanup' = CleanupOf(reqs, s)
    /\ writer' = 0
    /\ currentImageIndex' = 0
    /\ isImageLoaded' = FALSE

\* The parent renders the popup for another entity (or for none): space?._id changes.
SelectSpace(s) ==
    /\ mounted
    /\ s._id # space._id
    /\ IdAbsent(s) \/ Len(requests) < MaxFetches
    /\ space' = s
    /\ RunEffects(requests, cleanup, s)
    /\ UNCHANGED <<mounted, gateVars, propVars, navVars>>

\* A re-render that runs the effects although the id is the same (an effect
\* keyed by the `space` object).
Rerender_Refetch(s) ==
    /\ mounted
    /\ s._id = space._id
    /\ s # space
    /\ IdAbsent(s) \/ Len(requests) < MaxFetches
    /\ space' = s
    /\ RunEffects(requests, cleanup, s)
    /\ UNCHANGED <<mounted, gateVars, propVars, navVars>>

\* A re-render with the same space?._id (the entity record was refreshed): the
\* dependency array is unchanged, so neither effect runs.
Rerender(s) ==
    /\ mounted
    /\ s._id = space._id
    /\ s # space
    /\ space' = s
    /\ UNCHANGED <<mounted, ratingAvg, ratingCount, reviews, requests, cleanup, writer, gateVars, propVars, imageVars, navVars>>

\* Disposal of an effect that returns no cleanup.
Unmount_NoAbort ==
    /\ mounted
    /\ mounted' = FALSE
    /\ cleanup' = 0
    /\ UNCHANGED <<space, ratingAvg, ratingCount, reviews, requests, writer, gateVars, propVars, imageVars, navVars>>

\* The component is disposed: the cleanup of the fetch effect runs.
Unmount ==
    /\ mounted
    /\ mounted' = FALSE
    /\ requests' = Abort(requests, cleanup)
    /\ cleanup' = 0
    /\ UNCHANGED <<space, ratingAvg, ratingCount, reviews, writer, gateVars, propVars, imageVars, navVars>>

(***************************************************************************)
(* fetchRatings after the await (lines 123-178).                           *)
(***************************************************************************)
\* Staleness decided by comparing the request's entity id with the selection.
Cancelled_ById(r) == r.space._id # space._id

\* line 123 and line 173: the request was cancelled
Cancelled(r) == r.aborted

\* line 166: spaceId === String(space._id) && !controller.signal.aborted; both
\* sides of the comparison read the closure's `space`.
StillCurrent(r) == r.space._id = r.space._id /\ ~r.aborted

\* lines 125-171, no exception: the state the setters leave
Applied(r, data) ==
    [ratingAvg |-> Summary(data, r.space).avg,
     ratingCount |-> Summary(data, r.space).count,
     reviews |-> IF Len(RatingsArray(data)) > 0
                   THEN (IF StillCurrent(r) THEN Normalized(data) ELSE reviews)
                   ELSE <<>>]

Write(v) ==
    /\ ratingAvg' = v.ratingAvg
    /\ ratingCount' = v.ratingCount
    /\ reviews' = v.reviews

\* A catch block that skips the aborted check of line 173.
Catch_NoAbortCheck(i) ==
    /\ requests' = [requests EXCEPT ![i].settled = "failed"]
    /\ Write(Fallback(requests[i].space))
    /\ writer' = i

\* lines 172-178: the catch block
Catch(i) ==
    IF Cancelled(requests[i])
      THEN /\ requests' = [requests EXCEPT ![i].settled = "suppressed"]
           /\ UNCHANGED <<ratingAvg, ratingCount, reviews, writer>>
      ELSE /\ requests' = [requests EXCEPT ![i].settled = "failed"]
           /\ Write(Fallback(requests[i].space))
           /\ writer' = i

\* A continuation without the aborted check of line 123.
Then_NoAbortCheck(i, data) ==
    IF Throws(data)
      THEN Catch(i)
      ELSE /\ requests' = [requests EXCEPT ![i].settled = "applied"]
           /\ Write(Applied(requests[i], data))
           /\ writer' = i

\* lines 123-171: the continuation of a fulfilled axios.get
Then(i, data) ==
    IF Cancelled(requests[i])
      THEN /\ requests' = [requests EXCEPT ![i].settled = "suppressed"]
           /\ UNCHANGED <<ratingAvg, ratingCount, reviews, writer>>
    ELSE IF Throws(data)
      THEN Catch(i)
    ELSE /\ requests' = [requests EXCEPT ![i].settled = "applied"]
         /\ Write(Applied(requests[i], data))
         /\ writer' = i

\* The response of request i arrives.
FetchFulfilled(i, data) ==
    /\ requests[i].settled = "pending"
    /\ Then(i, data)
    /\ UNCHANGED <<mounted, space, cleanup, gateVars, propVars, imageVars, navVars>>

\* Request i fails: a network or HTTP error, or the CanceledError axios raises
\* when its signal is aborted.
FetchRejected(i) ==
    /\ requests[i].settled = "pending"
    /\ Catch(i)
    /\ UNCHANGED <<mounted, space, cleanup, gateVars, propVars, imageVars, navVars>>

(***************************************************************************)
(* Price and duration (lines 196-233).                                     *)
(***************************************************************************)
Decimal(n, d) == Frac(n, d)
DiscountObject(percent, value, amount) ==
    [t |-> "object", percent |-> percent, value |-> value, amount |-> amount]

\* The price fields of an entity record: priceParking, pricePerHour, price.
\* Prices, discounts and time windows are chosen so that no product lies half-way
\* between two cents: there the decimal arithmetic below and the doubles of the
\* source round alike.
PriceFields ==
    { <<Num(100), Undefined, Undefined>>,
      <<Undefined, Decimal(9999, 100), Undefined>>,
      <<Undefined, Undefined, Str("100")>>,
      <<Num(0), Num(50), Undefined>>,
      <<Decimal(10004, 1000), Undefined, Undefined>>,
      <<Decimal(6, 1000), Undefined, Undefined>>,
      <<Str("abc"), Num(50), Undefined>>,
      <<Undefined, Undefined, Undefined>> }

\* The discount fields of an entity record: discount, discountPercent.
DiscountFields ==
    { <<d, Undefined>> :
        d \in { Undefined, Null, Num(0), Num(10), Num(40), Num(100), Num(150), Num(-5),
                Decimal(1, 1000), Decimal(1, 100), NaN, Infinity,
                Str("10%"), Str("150%"), Str("abc"), Str(""), Bool(TRUE),
                DiscountObject(Num(20), Undefined, Undefined),
                DiscountObject(Undefined, Num(30), Num(40)),
                DiscountObject(Undefined, Undefined, Num(400)),
                DiscountObject(Str("abc"), Num(30), Undefined),
                DiscountObject(Undefined, Undefined, Undefined) } }
    \cup { <<Undefined, Num(25)>>, <<Null, Str("10%")>>, <<Num(0), Num(25)>> }

Priced(s, pf, df) ==
    [s EXCEPT !.priceParking = pf[1], !.pricePerHour = pf[2], !.price = pf[3],
              !.discount = df[1], !.discountPercent = df[2]]

\* rawDiscount.replace('%', '') on the strings the model uses
StripPercent(s) ==
    CASE s = "10%"  -> "10"
      [] s = "150%" -> "150"
      [] OTHER      -> s

\* a ?? b ?? c ?? d
Nullish4(a, b, c, d) == Nullish(a, Nullish(b, Nullish(c, d)))

\* line 197
BaseOf(s) ==
    LET v == ToNumber(Nullish4(s.priceParking, s.pricePerHour, s.price, Num(0)))
    IN  IF Truthy(v) THEN v ELSE Num(0)

\* lines 198-206
DiscountNum(s) ==
    LET rawDiscount == Nullish(s.discount, Nullish(s.discountPercent, Num(0))) IN
    CASE rawDiscount.t = "string" -> StringToNumber(StripPercent(rawDiscount.s))
      [] rawDiscount.t = "number" -> rawDiscount
      [] rawDiscount.t = "object" ->
           ToNumber(Nullish4(rawDiscount.percent, rawDiscount.value, rawDiscount.amount, Num(0)))
      [] OTHER -> Num(0)

\* A clamp that forgets the upper end of the range.
Clamp_NoUpper(discountNum) ==
    IF ~IsFinite(discountNum) THEN Num(0)
    ELSE IF NumLess(discountNum, Num(0)) THEN Num(0)
    ELSE discountNum

\* line 207: Math.max(0, Math.min(100, discountNum)) for a finite number, else 0
Clamp(discountNum) ==
    IF ~IsFinite(discountNum) THEN Num(0)
    ELSE IF NumLess(discountNum, Num(0)) THEN Num(0)
    ELSE IF NumLess(Num(100), discountNum) THEN Num(100)
    ELSE discountNum

\* A discounted price that is never rounded to cents.
Discounted_NoRound(base, clamped) ==
    NumMul(base, NumSub(Num(1), NumDiv(clamped, Num(100))))

\* line 208
Discounted(base, clamped) ==
    ToFixed2(NumMul(base, NumSub(Num(1), NumDiv(clamped, Num(100)))))

\* line 213
HasDiscount(base, clamped, discounted) ==
    NumLess(Num(0), clamped) /\ NumLess(discounted, base)

\* lines 196-215
computeDiscountedPrice(s) ==
    LET base == BaseOf(s)
        clamped == Clamp(DiscountNum(s))
        discounted == Discounted(base, clamped)
    IN  [basePrice |-> ToFixed2(base),
         discountPercent |-> clamped,
         discountedPrice |-> discounted,
         hasDiscount |-> HasDiscount(base, clamped, discounted)]

\* new Date(s).getTime() on the timestamps the model uses, in minutes since
\* 2024-01-01T00:00:00Z (differences are the millisecond differences / 60000).
TimeOf(s) ==
    CASE s = "2024-01-01T10:00:00Z" -> Num(600)
      [] s = "2024-01-01T10:20:00Z" -> Num(620)
      [] s = "2024-01-01T12:00:00Z" -> Num(720)
      [] OTHER                      -> NaN

Timestamps ==
    { Undefined, Null, Str(""), Str("not a date"),
      Str("2024-01-01T10:00:00Z"), Str("2024-01-01T10:20:00Z"), Str("2024-01-01T12:00:00Z") }

\* A duration that is not checked for end being after start.
computeDurationHours_NoOrderCheck(start, end) ==
    IF ~Truthy(start) \/ ~Truthy(end) THEN Null
    ELSE LET s == TimeOf(start.s)
             e == TimeOf(end.s)
         IN  IF IsNaN(s) \/ IsNaN(e) THEN Null
             ELSE NumDiv(NumSub(e, s), Num(60))

\* lines 217-224
computeDurationHours(start, end) ==
    IF ~Truthy(start) \/ ~Truthy(end) THEN Null
    ELSE LET s == TimeOf(start.s)
             e == TimeOf(end.s)
         IN  IF IsNaN(s) \/ IsNaN(e) \/ NumLeq(e, s) THEN Null
             ELSE NumDiv(NumSub(e, s), Num(60))

\* line 227
PriceMeta(s) == IF s.__price.t \in {"undefined", "null"} THEN computeDiscountedPrice(s) ELSE s.__price

\* line 232
PerHour(s) == IF PriceMeta(s).hasDiscount THEN PriceMeta(s).discountedPrice ELSE PriceMeta(s).basePrice

\* line 233
TotalAmount(s, start, end) ==
    LET durationHours == computeDurationHours(start, end)
    IN  IF Truthy(durationHours) THEN ToFixed2(NumMul(PerHour(s), durationHours)) ELSE Null

\* The parent passes another time window (the entity record is replaced by Rerender).
WindowChange(start, end) ==
    /\ mounted
    /\ <<start, end>> # <<startTime, endTime>>
    /\ startTime' = start
    /\ endTime' = end
    /\ UNCHANGED <<ratingVars, gateVars, env, imageVars, navVars>>

(***************************************************************************)
(* Image resolution (lines 89-90, 235-262).                                *)
(***************************************************************************)
PhotoObject(url, path, filename) ==
    [t |-> "object", url |-> url, path |-> path, filename |-> filename]
Array(items) == [t |-> "array", items |-> items]

\* p.startsWith('http://') || p.startsWith('https://'), p.startsWith('/') and
\* p.includes('/') on the strings the model uses.
StartsWithHttp(s) == s \in {"https://cdn.test/a.jpg", "http://cdn.test/b.jpg"}
StartsWithSlash(s) == s = "/static/c.jpg"
IncludesSlash(s) ==
    s \in {"https://cdn.test/a.jpg", "http://cdn.test/b.jpg", "/static/c.jpg", "folder/d.jpg"}

\* One photo reference: a string, an object with url, path and filename, or nothing.
PhotoItems ==
    { Undefined, Null, Str(""),
      Str("https://cdn.test/a.jpg"), Str("http://cdn.test/b.jpg"), Str("/static/c.jpg"),
      Str("folder/d.jpg"), Str("abc.jpg"),
      PhotoObject(Str("https://cdn.test/a.jpg"), Str("/static/c.jpg"), Str("abc.jpg")),
      PhotoObject(Undefined, Str("http://cdn.test/b.jpg"), Str("abc.jpg")),
      PhotoObject(Undefined, Str("/static/c.jpg"), Str("abc.jpg")),
      PhotoObject(Undefined, Str("folder/d.jpg"), Str("abc.jpg")),
      PhotoObject(Undefined, Undefined, Str("abc.jpg")),
      PhotoObject(Undefined, Str("folder/d.jpg"), Undefined),
      PhotoObject(Undefined, Undefined, Undefined) }
PairItems ==
    { Null, Str("abc.jpg"), Str("/static/c.jpg"), Str("folder/d.jpg"),
      PhotoObject(Undefined, Undefined, Undefined) }

\* The photos field: absent, one reference, or an array of up to two references.
Photos ==
    PhotoItems
    \cup { Array(<<>>) }
    \cup { Array(<<a>>) : a \in PhotoItems }
    \cup { Array(<<a, b>>) : a \in PairItems, b \in PairItems }

\* The build-time environment after lines 89-90: the API base without a trailing
\* slash, and the trimmed cloud name ("" when none is configured).
Envs ==
    { [API_BASE |-> "https://x.test", CLOUD_NAME |-> ""],
      [API_BASE |-> "https://x.test", CLOUD_NAME |-> "demo"] }

\* A resolver that tries the cloud rule before the root-relative rule.
makeUrl_CloudFirst(p, e) ==
    IF ~Truthy(p) THEN Null
    ELSE IF p.t = "string" THEN
        IF StartsWithHttp(p.s) THEN p
        ELSE IF e.CLOUD_NAME # "" /\ IncludesSlash(p.s)
             THEN Str("https://res.cloudinary.com/" \o e.CLOUD_NAME \o "/image/upload/" \o p.s)
        ELSE IF StartsWithSlash(p.s) THEN Str(e.API_BASE \o p.s)
        ELSE Str(e.API_BASE \o "/uploads/" \o p.s)
    ELSE IF p.t = "object" THEN
        IF Truthy(p.url) THEN p.url
        ELSE IF Truthy(p.path) /\ StartsWithHttp(p.path.s) THEN p.path
        ELSE IF Truthy(p.path) /\ StartsWithSlash(p.path.s) THEN Str(e.API_BASE \o p.path.s)
        ELSE IF Truthy(p.filename) THEN Str(e.API_BASE \o "/uploads/" \o p.filename.s)
        ELSE Null
    ELSE Null

\* lines 235-252; an array has none of url, path and filename
makeUrl(p, e) ==
    IF ~Truthy(p) THEN Null
    ELSE IF p.t = "string" THEN
        IF StartsWithHttp(p.s) THEN p
        ELSE IF StartsWithSlash(p.s) THEN Str(e.API_BASE \o p.s)
        ELSE IF e.CLOUD_NAME # "" /\ IncludesSlash(p.s)
             THEN Str("https://res.cloudinary.com/" \o e.CLOUD_NAME \o "/image/upload/" \o p.s)
        ELSE Str(e.API_BASE \o "/uploads/" \o p.s)
    ELSE IF p.t = "object" THEN
        IF Truthy(p.url) THEN p.url
        ELSE IF Truthy(p.path) /\ StartsWithHttp(p.path.s) THEN p.path
        ELSE IF Truthy(p.path) /\ StartsWithSlash(p.path.s) THEN Str(e.API_BASE \o p.path.s)
        ELSE IF Truthy(p.filename) THEN Str(e.API_BASE \o "/uploads/" \o p.filename.s)
        ELSE Null
    ELSE Null

\* line 261
Placeholder ==
    Str("https://images.unsplash.com/photo-1560518883-ce09059eeffa?ixlib=rb-4.0.3&auto=format&fit=crop&w=400&q=80")

\* .filter(Boolean)
FilterBoolean(seq) == SelectSeq(seq, Truthy)

\* lines 254-262
images(s, e) ==
    LET rawPhotos == s.photos IN
    IF rawPhotos.t = "array" /\ Len(rawPhotos.items) > 0
    THEN FilterBoolean([i \in DOMAIN rawPhotos.items |-> makeUrl(rawPhotos.items[i], e)])
    ELSE IF Truthy(rawPhotos) THEN FilterBoolean(<<makeUrl(rawPhotos, e)>>)
    ELSE <<Placeholder>>

\* lines 264-268; the buttons are rendered only when images.length > 1 (line 490)
nextImage ==
    /\ mounted
    /\ Len(images(space, env)) > 1
    /\ currentImageIndex' = (currentImageIndex + 1) % Len(images(space, env))
    /\ isImageLoaded' = FALSE
    /\ UNCHANGED <<ratingVars, gateVars, propVars, navVars>>

\* lines 269-273
prevImage ==
    /\ mounted
    /\ Len(images(space, env)) > 1
    /\ currentImageIndex' =
          (currentImageIndex - 1 + Len(images(space, env))) % Len(images(space, env))
    /\ isImageLoaded' = FALSE
    /\ UNCHANGED <<ratingVars, gateVars, propVars, navVars>>

\* line 485: the image at images[currentImageIndex] finished loading
ImageLoaded ==
    /\ mounted
    /\ currentImageIndex < Len(images(space, env))
    /\ ~isImageLoaded
    /\ isImageLoaded' = TRUE
    /\ UNCHANGED <<currentImageIndex, ratingVars, gateVars, propVars, navVars>>

(***************************************************************************)
(* The booking eligibility gate (lines 275-309, 688-696).                  *)
(***************************************************************************)
UserRec(id, isVerified) ==
    [t |-> "object", _id |-> id, id |-> Undefined, isVerified |-> isVerified]
\* A user record that carries its identifier in `id` instead of `_id`.
UserRecId(id, isVerified) ==
    [t |-> "object", _id |-> Undefined, id |-> id, isVerified |-> isVerified]
Users ==
    { Null,
      UserRec(Str("u1"), Bool(TRUE)),
      UserRec(Str("u1"), Bool(FALSE)),
      UserRec(Str("u1"), Undefined),
      UserRecId(Str("u2"), Bool(TRUE)) }
AuthRec(phoneVerified) == [t |-> "object", phoneVerified |-> phoneVerified]
AuthUsers == { Null, AuthRec(Bool(TRUE)), AuthRec(Bool(FALSE)), AuthRec(Undefined) }

\* (authUser as any)?.phoneVerified
PhoneVerified(au) == IF au.t = "object" THEN au.phoneVerified ELSE Undefined

Toast(msg) == [e |-> "toast.info", msg |-> msg]
Navigate(to, state) == [e |-> "navigate", to |-> to, state |-> state]
OnClose == [e |-> "onClose"]

LoginNotice == "Please log in to book the parking space."
KycNotice == "Your account is not verified. Please complete your KYC to book."

\* line 294: space._id?.toString() || space._id (ids are strings or absent)
Sid(s) == IF Truthy(s._id) THEN s._id ELSE s._id
\* line 295: user._id || user.id
Uid(u) == IF Truthy(u._id) THEN u._id ELSE u.id

\* A handoff that reports a zero total when no duration is selected.
Handoff_ZeroTotal(s, u, start, end) ==
    Navigate("/vehicle-details",
             [spaceId |-> Sid(s), userId |-> Uid(u),
              startTime |-> Nullish(start, Null), endTime |-> Nullish(end, Null),
              totalAmount |-> Nullish(TotalAmount(s, start, end), Num(0)),
              perHour |-> PerHour(s),
              durationHours |-> computeDurationHours(start, end)])

\* lines 297-307: the state handed to /vehicle-details
Handoff(s, u, start, end) ==
    Navigate("/vehicle-details",
             [spaceId |-> Sid(s), userId |-> Uid(u),
              startTime |-> Nullish(start, Null), endTime |-> Nullish(end, Null),
              totalAmount |-> TotalAmount(s, start, end),
              perHour |-> PerHour(s),
              durationHours |-> computeDurationHours(start, end)])

\* `ended` is how the sub-flow last ended: "none", "close" or "success".
SubflowClosed(ended) == [open |-> FALSE, verified |-> FALSE, ended |-> ended]
SubflowOpen(u, au) == [open |-> TRUE, verified |-> FALSE, user |-> u, authUser |-> au]

\* A gate that looks at the phone flag before the identity flag.
Gate_PhoneFirst(u, au) ==
    IF ~Truthy(u) THEN "Unauthenticated"
    ELSE IF PhoneVerified(au) = Bool(FALSE) THEN "PhoneUnverified"
    ELSE IF ~Truthy(u.isVerified) THEN "UnverifiedIdentity"
    ELSE "Eligible"

\* A gate that looks at the phone flag before the session.
Gate_PhoneBeforeSession(u, au) ==
    IF PhoneVerified(au) = Bool(FALSE) THEN "PhoneUnverified"
    ELSE IF ~Truthy(u) THEN "Unauthenticated"
    ELSE IF ~Truthy(u.isVerified) THEN "UnverifiedIdentity"
    ELSE "Eligible"

\* handleBookNow, lines 277-292: the check that stops the attempt, or "Eligible"
Gate(u, au) ==
    IF ~Truthy(u) THEN "Unauthenticated"
    ELSE IF ~Truthy(u.isVerified) THEN "UnverifiedIdentity"
    ELSE IF PhoneVerified(au) = Bool(FALSE) THEN "PhoneUnverified"
    ELSE "Eligible"

\* A handler that stops an unverified user without telling them why.
handleBookNow_SilentKyc(modal) ==
    LET outcome == Gate(user, authUser) IN
    /\ attempts' = attempts + 1
    /\ effects' =
         CASE outcome = "Unauthenticated"    -> effects \o <<Toast(LoginNotice), Navigate("/login", Undefined)>>
           [] outcome = "UnverifiedIdentity" -> effects
           [] outcome = "PhoneUnverified"    -> effects
           [] outcome = "Eligible"           -> effects \o <<Handoff(space, user, startTime, endTime), OnClose>>
    /\ showPhoneModal' = IF outcome = "PhoneUnverified" THEN TRUE ELSE modal
    /\ subflow' = IF outcome = "PhoneUnverified" THEN SubflowOpen(user, authUser)
                  ELSE IF modal \/ ~showPhoneModal THEN subflow
                  ELSE SubflowClosed("success")

\* handleBookNow, lines 275-309; `modal` is showPhoneModal as the caller left it.
handleBookNow(modal) ==
    LET outcome == Gate(user, authUser) IN
    /\ attempts' = attempts + 1
    /\ effects' =
         CASE outcome = "Unauthenticated"    -> effects \o <<Toast(LoginNotice), Navigate("/login", Undefined)>>
           [] outcome = "UnverifiedIdentity" -> Append(effects, Toast(KycNotice))
           [] outcome = "PhoneUnverified"    -> effects
           [] outcome = "Eligible"           -> effects \o <<Handoff(space, user, startTime, endTime), OnClose>>
    /\ showPhoneModal' = IF outcome = "PhoneUnverified" THEN TRUE ELSE modal
    /\ subflow' = IF outcome = "PhoneUnverified" THEN SubflowOpen(user, authUser)
                  ELSE IF modal \/ ~showPhoneModal THEN subflow
                  ELSE SubflowClosed("success")

\* line 576: the Book Now button
BookNow ==
    /\ mounted
    /\ attempts < MaxAttempts
    /\ handleBookNow(showPhoneModal)
    /\ UNCHANGED <<user, authUser, ratingVars, propVars, imageVars, navVars>>

\* An onClose that clears the modal flag and then tries the booking again.
PhoneVerifyClose_Retry ==
    /\ mounted
    /\ showPhoneModal
    /\ attempts < MaxAttempts
    /\ attempts' = attempts + 1
    /\ effects' = IF Gate(user, authUser) = "Eligible"
                    THEN effects \o <<Handoff(space, user, startTime, endTime), OnClose>>
                    ELSE effects
    /\ showPhoneModal' = FALSE
    /\ subflow' = SubflowClosed("close")
    /\ UNCHANGED <<user, authUser, ratingVars, propVars, imageVars, navVars>>

\* line 690: PhoneVerifyModal onClose
PhoneVerifyClose ==
    /\ mounted
    /\ showPhoneModal
    /\ showPhoneModal' = FALSE
    /\ subflow' = SubflowClosed("close")
    /\ UNCHANGED <<user, authUser, attempts, effects, ratingVars, propVars, imageVars, navVars>>

\* The sub-flow verifies the phone: the auth context's record gets
\* phoneVerified = true and the component re-renders with it.
PhoneVerifyDone ==
    /\ mounted
    /\ showPhoneModal
    /\ ~subflow.verified
    /\ authUser.t = "object"
    /\ authUser' = [authUser EXCEPT !.phoneVerified = Bool(TRUE)]
    /\ subflow' = [subflow EXCEPT !.verified = TRUE]
    /\ UNCHANGED <<user, showPhoneModal, attempts, effects, ratingVars, propVars, imageVars, navVars>>

\* An onSuccess that only closes the modal.
OnSuccess_CloseOnly ==
    /\ showPhoneModal' = FALSE
    /\ subflow' = SubflowClosed("success")
    /\ UNCHANGED <<attempts, effects>>

\* An onSuccess that hands off without running the gate again.
OnSuccess_AssumeEligible ==
    /\ showPhoneModal' = FALSE
    /\ subflow' = SubflowClosed("success")
    /\ attempts' = attempts + 1
    /\ effects' = effects \o
          <<Navigate("/vehicle-details",
                     [spaceId |-> space._id,
                      userId |-> IF user.t = "object" THEN Uid(user) ELSE Undefined]),
            OnClose>>

\* lines 691-694: PhoneVerifyModal onSuccess
OnSuccess == handleBookNow(FALSE)

PhoneVerifySuccess ==
    /\ mounted
    /\ showPhoneModal
    /\ subflow.verified
    /\ attempts < MaxAttempts
    /\ OnSuccess
    /\ UNCHANGED <<user, authUser, ratingVars, propVars, imageVars, navVars>>

\* The parent passes another `user`, or the auth context publishes another record
\* (login, logout, KYC result, profile refresh).
UserChange(u, au) ==
    /\ mounted
    /\ <<u, au>> # <<user, authUser>>
    /\ user' = u
    /\ authUser' = au
    /\ UNCHANGED <<showPhoneModal, subflow, attempts, effects, ratingVars, propVars, imageVars, navVars>>

(***************************************************************************)
(* Specifications.                                                         *)
(***************************************************************************)
\* The state after mount with prop s: the useState initialisers (lines 61-65)
\* and the first run of both effects.
Mounted(s) ==
    /\ mounted = TRUE
    /\ space = s
    /\ ratingAvg = Fallback(s).ratingAvg
    /\ ratingCount = Fallback(s).ratingCount
    /\ reviews = Fallback(s).reviews
    /\ requests = IssueFetch(<<>>, s)
    /\ cleanup = CleanupOf(<<>>, s)
    /\ writer = 0
    /\ showPhoneModal = FALSE
    /\ subflow = SubflowClosed("none")
    /\ attempts = 0
    /\ effects = <<>>
    /\ currentImageIndex = 0
    /\ isImageLoaded = FALSE

(***************************************************************************)
(* Navbar: the guarded refreshUser effect (part_000, lines 26-43).         *)
(***************************************************************************)
MaxRefreshes == 3

\* What useAuth() hands to Navbar as `user`: nobody, a record without _id, a
\* record with an empty _id, and the users A and B.
NavUserRec(id) == [t |-> "object", _id |-> id]
NavUsers ==
    { Null,
      NavUserRec(Undefined),
      NavUserRec(Str("")),
      NavUserRec(Str("A")),
      NavUserRec(Str("B")) }

\* line 28: (user as any)?._id ?? null
UserId(u) == IF u.t \in {"undefined", "null"} THEN Null ELSE Nullish(u._id, Null)

\* A guard that remembers every id it has refreshed, not only the last one.
ShouldRefresh_Remembered(auth, userId) ==
    /\ auth
    /\ Truthy(userId)
    /\ \A k \in DOMAIN refreshCalls : refreshCalls[k].id # userId

\* lines 29-31: the two early returns of the effect
ShouldRefresh(auth, userId) ==
    /\ auth
    /\ Truthy(userId)
    /\ lastRef # userId

\* useAuth() delivers new values of isAuthenticated and user; Navbar renders and
\* the effect of lines 27-43 runs up to the call of refreshUser().
AuthChange(auth, u) ==
    /\ <<auth, u>> # <<isAuthenticated, navUser>>
    /\ isAuthenticated' = auth
    /\ navUser' = u
    /\ IF ShouldRefresh(auth, UserId(u))
         THEN /\ Len(refreshCalls) < MaxRefreshes
              /\ lastRef' = UserId(u)
              /\ refreshCalls' = Append(refreshCalls, [id |-> UserId(u), outcome |-> "pending"])
         ELSE UNCHANGED <<lastRef, refreshCalls>>
    /\ UNCHANGED <<ratingVars, gateVars, propVars, imageVars>>

\* lines 35-42: the promise of refreshUser() settles; a rejection is caught and
\* logged with console.warn.
RefreshSettled(k, ok) ==
    /\ k \in DOMAIN refreshCalls
    /\ refreshCalls[k].outcome = "pending"
    /\ refreshCalls' =
          [refreshCalls EXCEPT ![k].outcome = IF ok THEN "resolved" ELSE "warned"]
    /\ UNCHANGED <<isAuthenticated, navUser, lastRef, ratingVars, gateVars, propVars, imageVars>>

\* Navbar before anyone is signed in.
NavIdle ==
    /\ isAuthenticated = FALSE
    /\ navUser = Null
    /\ lastRef = Null
    /\ refreshCalls = <<>>

DefaultEnv == [API_BASE |-> "https://x.test", CLOUD_NAME |-> ""]

\* The rating aggregator, for a visitor who does nothing but browse.
Init ==
    /\ \E s \in Spaces : Mounted(s)
    /\ user = Null
    /\ authUser = Null
    /\ startTime = Undefined
    /\ endTime = Undefined
    /\ env = DefaultEnv
    /\ NavIdle

Next ==
    \/ \E s \in Spaces : SelectSpace(s)
    \/ \E s \in Spaces : Rerender(s)
    \/ Unmount
    \/ \E i \in DOMAIN requests : \E data \in Responses : FetchFulfilled(i, data)
    \/ \E i \in DOMAIN requests : FetchRejected(i)

Spec == Init /\ [][Next]_vars

\* Some pending request is answered or fails.
Completion ==
    \E i \in DOMAIN requests :
        \/ \E data \in Responses : FetchFulfilled(i, data)
        \/ FetchRejected(i)

\* The aggregator of a popup that stays open, when every request completes.
LiveSpaces == { Space(Str("A"), Num(3)), Space(Str("A"), Num(4)), Space(Str("B"), Num(4)) }

LiveInit ==
    /\ \E s \in LiveSpaces : Mounted(s)
    /\ user = Null
    /\ authUser = Null
    /\ startTime = Undefined
    /\ endTime = Undefined
    /\ env = DefaultEnv
    /\ NavIdle

LiveNext ==
    \/ \E s \in LiveSpaces : SelectSpace(s)
    \/ \E s \in LiveSpaces : Rerender(s)
    \/ Completion

\* Weak fairness of Completion: the promise of axios.get (lines 113-121) is
\* fulfilled or rejected, and its continuation is then run by the event loop.
LiveSpec == LiveInit /\ [][LiveNext]_vars /\ WF_vars(Completion)

\* Entities the gate is exercised on: two without price fields, one with a
\* discounted price and one with a price that has no discount.
GateSpaces ==
    { Space(Str("A"), Num(3)), Space(Str("B"), Undefined),
      Priced(Space(Str("A"), Num(4)), <<Num(100), Undefined, Undefined>>, <<Num(10), Undefined>>),
      Priced(Space(Str("B"), Num(4)), <<Undefined, Decimal(9999, 100), Undefined>>,
             <<Undefined, Undefined>>) }

\* Time windows: none, 2 hours, 20 minutes, and one that ends before it starts.
TimeWindows ==
    { <<Undefined, Undefined>>,
      <<Str("2024-01-01T10:00:00Z"), Str("2024-01-01T12:00:00Z")>>,
      <<Str("2024-01-01T10:00:00Z"), Str("2024-01-01T10:20:00Z")>>,
      <<Str("2024-01-01T12:00:00Z"), Str("2024-01-01T10:00:00Z")>> }

\* The booking gate, for a popup showing one entity to any user.
GateInit ==
    /\ \E s \in GateSpaces : Mounted(s)
    /\ user \in Users
    /\ authUser \in AuthUsers
    /\ \E w \in TimeWindows : startTime = w[1] /\ endTime = w[2]
    /\ env = DefaultEnv
    /\ NavIdle

\* Entity records with every combination of price and discount fields, and two
\* that carry a price computed upstream.
UpstreamPrice(base, percent, discounted, has) ==
    [t |-> "object", basePrice |-> base, discountPercent |-> percent,
     discountedPrice |-> discounted, hasDiscount |-> has]
PricedSpaces ==
    { Priced(Space(Str("A"), Num(3)), pf, df) : pf \in PriceFields, df \in DiscountFields }
    \cup { [Space(Str("A"), Num(3)) EXCEPT !.__price = UpstreamPrice(Num(80), Num(25), Num(60), TRUE)],
           [Priced(Space(Str("A"), Num(3)), <<Num(100), Undefined, Undefined>>, <<Num(10), Undefined>>)
               EXCEPT !.__price = UpstreamPrice(Num(70), Num(0), Num(70), FALSE)] }

\* The price panel, for a popup of any priced entity whose time window changes.
PriceInit ==
    /\ \E s \in PricedSpaces : Mounted(s)
    /\ user = Null
    /\ authUser = Null
    /\ startTime = Undefined
    /\ endTime = Undefined
    /\ env = DefaultEnv
    /\ NavIdle

PriceNext ==
    \/ \E start \in Timestamps : WindowChange(start, endTime)
    \/ \E end \in Timestamps : WindowChange(startTime, end)

PriceSpec == PriceInit /\ [][PriceNext]_vars

\* The image strip, for a popup whose entity record is refreshed with other photos.
PhotoSpaces == { [Space(Str("A"), Num(3)) EXCEPT !.photos = ph] : ph \in Photos }

ImageInit ==
    /\ \E s \in PhotoSpaces : Mounted(s)
    /\ user = Null
    /\ authUser = Null
    /\ startTime = Undefined
    /\ endTime = Undefined
    /\ env \in Envs
    /\ NavIdle

ImageNext == \E s \in PhotoSpaces : Rerender(s)

ImageSpec == ImageInit /\ [][ImageNext]_vars

\* The rating aggregator, for selections between two entities answered by bodies
\* with and without stats.
ResponseInit ==
    /\ \E s \in {Space(Str("A"), Num(3)), Space(Str("B"), Undefined)} : Mounted(s)
    /\ user = Null
    /\ authUser = Null
    /\ startTime = Undefined
    /\ endTime = Undefined
    /\ env = DefaultEnv
    /\ NavIdle

ResponseNext ==
    \/ \E s \in {Space(Str("A"), Num(3)), Space(Str("B"), Undefined)} :
          SelectSpace(s)
    \/ \E i \in DOMAIN requests : \E data \in ResponseBodies : FetchFulfilled(i, data)
    \/ \E i \in DOMAIN requests : FetchRejected(i)

ResponseSpec == ResponseInit /\ [][ResponseNext]_vars

\* The carousel, for entities with three, two, one and no photos.
WithPhotos(id, ph) == [Space(Str(id), Undefined) EXCEPT !.photos = ph]
CarouselSpaces ==
    { WithPhotos("A", Array(<<Str("abc.jpg"), Str("/static/c.jpg"), Str("folder/d.jpg")>>)),
      WithPhotos("A", Array(<<Str("abc.jpg"), Str("/static/c.jpg")>>)),
      WithPhotos("A", Str("abc.jpg")),
      WithPhotos("A", Array(<<>>)),
      WithPhotos("B", Array(<<Str("/static/c.jpg"), Str("abc.jpg")>>)),
      WithPhotos("B", Undefined) }

CarouselInit ==
    /\ \E s \in CarouselSpaces : Mounted(s)
    /\ user = Null
    /\ authUser = Null
    /\ startTime = Undefined
    /\ endTime = Undefined
    /\ env = DefaultEnv
    /\ NavIdle

CarouselNext ==
    \/ \E s \in CarouselSpaces : SelectSpace(s)
    \/ \E s \in CarouselSpaces : Rerender(s)
    \/ nextImage
    \/ prevImage
    \/ ImageLoaded

CarouselSpec == CarouselInit /\ [][CarouselNext]_vars

\* Navbar, while users sign in and out and the account changes.
NavInit ==
    /\ Mounted(Space(Str("A"), Undefined))
    /\ user = Null
    /\ authUser = Null
    /\ startTime = Undefined
    /\ endTime = Undefined
    /\ env = DefaultEnv
    /\ NavIdle

NavNext ==
    \/ \E auth \in BOOLEAN : \E u \in NavUsers : AuthChange(auth, u)
    \/ \E k \in DOMAIN refreshCalls : \E ok \in BOOLEAN : RefreshSettled(k, ok)

NavSpec == NavInit /\ [][NavNext]_vars

GateNext ==
    \/ BookNow
    \/ PhoneVerifyClose
    \/ PhoneVerifyDone
    \/ PhoneVerifySuccess
    \/ \E u \in Users : \E au \in AuthUsers : UserChange(u, au)

GateSpec == GateInit /\ [][GateNext]_vars

(***************************************************************************)
(* Properties of the rating aggregator (checked under Spec).               *)
(***************************************************************************)
\* The request issued by the current selection, 0 if there is none.
Current == cleanup

\* C1: after select A, select B, only B's request is reflected by the visible
\* rating state, whenever and however A's request completes; and while B's
\* request is pending the visible state is B's cached-rating fallback.
C1_OnlyLatestSelectionVisible ==
    /\ writer # 0 =>
         /\ writer = Len(requests)
         /\ requests[writer].space._id = space._id
         /\ requests[writer].settled \in {"applied", "failed"}
    /\ (Current # 0 /\ requests[Current].settled = "pending") =>
         /\ writer = 0
         /\ ratingAvg = ToNumber(Nullish(requests[Current].space.rating, Num(0)))
         /\ ratingCount = Num(0)
         /\ reviews = <<>>

\* A then B were selected, B's response was applied and A's completion was dropped;
\* A's fallback (3) differs from what is shown.
C1_Witness ==
    /\ Len(requests) = 2
    /\ requests[1].space = Space(Str("A"), Num(3))
    /\ requests[2].space._id = Str("B")
    /\ requests[1].settled = "suppressed"
    /\ requests[2].settled = "applied"
    /\ writer = 2
    /\ ratingAvg = Num(5)

\* C2: the completion (success or failure) of a cancelled request changes neither
\* the average, nor the count, nor the review list.
C2_CancelledCompletionWritesNothing ==
    [][\A i \in DOMAIN requests :
          (requests[i].aborted /\ requests[i].settled = "pending"
             /\ requests'[i].settled # "pending")
          => /\ ratingAvg' = ratingAvg
             /\ ratingCount' = ratingCount
             /\ reviews' = reviews
             /\ requests'[i].settled = "suppressed"]_vars

\* A cancelled request has completed while another request's result is shown.
C2_Witness ==
    \E i \in DOMAIN requests :
        /\ requests[i].aborted
        /\ requests[i].settled = "suppressed"
        /\ writer \notin {0, i}
        /\ ratingAvg # CachedRating(requests[i].space)

\* C3: a change of the selected id resets the visible state to the new entity's
\* cached rating (0 if absent), count 0 and no reviews, with the new request (if
\* any) still pending: nothing of the previous entity's response stays visible.
C3_ResetOnSelection ==
    [][space'._id # space._id =>
          /\ ratingAvg' = (IF space'.rating.t = "number" THEN space'.rating ELSE Num(0))
          /\ ratingCount' = Num(0)
          /\ reviews' = <<>>
          /\ writer' = 0
          /\ cleanup' # 0 => requests'[cleanup'].settled = "pending"]_vars

\* The first entity's response had been applied, then another id was selected and
\* the state shows the new entity's fallback.
C3_Witness ==
    /\ Len(requests) = 2
    /\ requests[1].settled = "applied"
    /\ requests[2].settled = "pending"
    /\ requests[1].space._id # space._id
    /\ ratingAvg = Num(4)
    /\ ratingCount = Num(0)
    /\ reviews = <<>>

\* C4: only the request of the most recent selection can write the visible state,
\* and it does so at most once; the completion of an older request writes nothing
\* even when its entity id equals the selected id.
C4_StalenessByGeneration ==
    [][\A i \in DOMAIN requests :
          /\ (requests[i].settled = "pending" /\ requests'[i].settled \in {"applied", "failed"})
               => (i = Len(requests) /\ i = Current)
          /\ (requests[i].settled = "pending" /\ requests'[i].settled # "pending"
                /\ i < Len(requests))
               => (ratingAvg' = ratingAvg /\ ratingCount' = ratingCount /\ reviews' = reviews)
          /\ requests[i].settled # "pending" => requests'[i].settled = requests[i].settled]_vars

\* Select A, select B, select A again: the first A request completed late and was
\* dropped although A is selected.
C4_Witness ==
    /\ Len(requests) = 3
    /\ requests[1].space._id = Str("A")
    /\ requests[2].space._id = Str("B")
    /\ requests[3].space._id = Str("A")
    /\ space._id = Str("A")
    /\ requests[1].settled = "suppressed"
    /\ requests[3].settled = "applied"
    /\ writer = 3

\* C5: a change of the selected id to a present id issues exactly one fetch for that
\* id, whose token is the only live one; a re-render with the same id issues none.
C5_OneFetchPerSelection ==
    [][/\ (space'._id # space._id /\ ~IdAbsent(space')) =>
            /\ Len(requests') = Len(requests) + 1
            /\ requests'[Len(requests')] =
                  [space |-> space', aborted |-> FALSE, settled |-> "pending"]
            /\ \A i \in DOMAIN requests : requests'[i].aborted
       /\ space'._id = space._id => Len(requests') = Len(requests)
       /\ \A i \in DOMAIN requests' :
            ~requests'[i].aborted => (i = Len(requests') /\ requests'[i].space._id = space'._id)
      ]_vars

\* Two selections issued two requests, the first token is cancelled, and a later
\* re-render with the same id (another cached rating) issued nothing.
C5_Witness ==
    /\ Len(requests) = 2
    /\ requests[1].aborted
    /\ ~requests[2].aborted
    /\ requests[2].space._id = space._id
    /\ requests[2].space # space

\* C6: when the request of the current selection fails, the visible state is the
\* reset fallback (the cached rating read at selection, count 0, no reviews) and
\* the failure ends in the catch block.
C6_FailureLeavesFallback ==
    \A i \in DOMAIN requests :
        (writer = i /\ requests[i].settled = "failed") =>
            /\ ratingAvg = (IF requests[i].space.rating.t = "number"
                              THEN requests[i].space.rating ELSE Num(0))
            /\ ratingCount = Num(0)
            /\ reviews = <<>>

\* The current request failed for an entity with a cached rating.
C6_Witness ==
    \E i \in DOMAIN requests :
        /\ writer = i
        /\ ~requests[i].aborted
        /\ requests[i].settled = "failed"
        /\ requests[i].space.rating = Num(4)

\* C7: teardown (the id becomes absent, or the component is disposed) cancels every
\* outstanding request and issues no fetch; disposal writes nothing, and nothing
\* that happens while torn down writes the rating state.
C7_TeardownCancelsSilently ==
    [][/\ (mounted /\ ~mounted') =>
            /\ \A i \in DOMAIN requests' : requests'[i].aborted
            /\ Len(requests') = Len(requests)
            /\ ratingAvg' = ratingAvg /\ ratingCount' = ratingCount /\ reviews' = reviews
       /\ (~IdAbsent(space) /\ IdAbsent(space')) =>
            /\ \A i \in DOMAIN requests' : requests'[i].aborted
            /\ Len(requests') = Len(requests)
       /\ ((~mounted \/ IdAbsent(space)) /\ space' = space) =>
            /\ Len(requests') = Len(requests)
            /\ ratingAvg' = ratingAvg /\ ratingCount' = ratingCount /\ reviews' = reviews
      ]_vars

\* The component was disposed while a result was shown and a request that was
\* outstanding at a teardown has completed.
C7_Witness ==
    /\ ~mounted
    /\ Len(requests) > 0
    /\ requests[Len(requests)].settled = "suppressed"
    /\ \A i \in DOMAIN requests : requests[i].aborted

(***************************************************************************)
(* Properties of the booking gate (checked under GateSpec).                *)
(***************************************************************************)
IsHandoff(ev) == ev.e = "navigate" /\ ev.to = "/vehicle-details"
Handoffs(evs) == Cardinality({i \in DOMAIN evs : IsHandoff(evs[i])})
HasSession(u) == u.t = "object"
\* A call of handleBookNow (from the button or from onSuccess) happens in this step.
Attempted == attempts' = attempts + 1
\* What this step emits (effects only ever grows at its end).
Emitted == SubSeq(effects', Len(effects) + 1, Len(effects'))
Closes(evs) == Cardinality({i \in DOMAIN evs : evs[i] = OnClose})
\* The selected window is a duration: both timestamps parse and end is after start.
ValidWindow ==
    /\ startTime.t = "string" /\ endTime.t = "string"
    /\ IsFinite(TimeOf(startTime.s)) /\ IsFinite(TimeOf(endTime.s))
    /\ NumLess(TimeOf(startTime.s), TimeOf(endTime.s))

\* C8: an attempt by a user with a session, verified identity and phone flag false
\* opens the sub-flow and emits nothing; when the sub-flow, having verified the
\* phone, signals success and the user records are otherwise as they were when it
\* opened, the re-run emits exactly one handoff, then closes the view.
C8_PhoneSubflowThenHandoff ==
    [][/\ (Attempted /\ HasSession(user) /\ user.isVerified = Bool(TRUE)
             /\ PhoneVerified(authUser) = Bool(FALSE))
            => (showPhoneModal' /\ effects' = effects)
       /\ (PhoneVerifySuccess /\ user = subflow.user
             /\ authUser = [subflow.authUser EXCEPT !.phoneVerified = Bool(TRUE)])
            => /\ Handoffs(effects') = Handoffs(effects) + 1
               /\ Len(Emitted) = 2
               /\ IsHandoff(Emitted[1])
               /\ Emitted[1].state.spaceId = space._id
               /\ Emitted[1].state.userId \in {user._id, user.id} \ {Undefined}
               /\ Emitted[2] = OnClose
               /\ ~showPhoneModal'
      ]_vars

\* The first attempt opened the sub-flow (it emitted nothing), the sub-flow ended
\* with success, and the re-run handed off once.
C8_Witness ==
    /\ attempts = 2
    /\ subflow = SubflowClosed("success")
    /\ ~showPhoneModal
    /\ Len(effects) = 2
    /\ IsHandoff(effects[1])
    /\ effects[2] = OnClose
    /\ authUser = AuthRec(Bool(TRUE))

\* C9: the re-run from onSuccess starts at the session check and reads the current
\* user records: without a session it ends in the login redirect, with a session
\* but a falsy identity flag in the identity notice, and in neither case hands off.
C9_RerunFromTheTop ==
    [][PhoneVerifySuccess =>
          /\ ~HasSession(user) =>
                /\ effects' = effects \o <<Toast(LoginNotice), Navigate("/login", Undefined)>>
                /\ ~showPhoneModal'
          /\ (HasSession(user) /\ user.isVerified # Bool(TRUE)) =>
                /\ effects' = Append(effects, Toast(KycNotice))
                /\ ~showPhoneModal'
          /\ (~HasSession(user) \/ user.isVerified # Bool(TRUE)) =>
                Handoffs(effects') = Handoffs(effects)]_vars

\* The session ended while the sub-flow was open; its success signal led to the
\* login redirect.
C9_Witness ==
    /\ subflow = SubflowClosed("success")
    /\ attempts = 2
    /\ user = Null
    /\ effects = <<Toast(LoginNotice), Navigate("/login", Undefined)>>

\* C10: an attempt by a user with a session whose identity flag is false (or absent)
\* shows the identity notice and nothing else: no handoff, no navigation, the
\* sub-flow is not opened and onClose is not called, whatever the phone flag is.
C10_UnverifiedIdentityBlocks ==
    [][(Attempted /\ HasSession(user) /\ user.isVerified \in {Bool(FALSE), Undefined}) =>
          /\ effects' = Append(effects, Toast(KycNotice))
          /\ showPhoneModal' => showPhoneModal]_vars

\* An unverified user whose phone flag is false attempted a booking and got the notice.
C10_Witness ==
    /\ attempts = 1
    /\ user = UserRec(Str("u1"), Bool(FALSE))
    /\ PhoneVerified(authUser) = Bool(FALSE)
    /\ effects = <<Toast(KycNotice)>>
    /\ ~showPhoneModal

\* C11: the checks run in the order session, identity, phone: an attempt without
\* a session ends in the login notice and redirect whatever the phone flag is, and
\* the sub-flow is opened only for a user with a session and a verified identity.
C11_ChecksInOrder ==
    [][Attempted =>
          /\ ~HasSession(user) =>
                /\ effects' = effects \o <<Toast(LoginNotice), Navigate("/login", Undefined)>>
                /\ Handoffs(effects') = Handoffs(effects)
                /\ showPhoneModal' => showPhoneModal
          /\ (showPhoneModal' /\ (~showPhoneModal \/ subflow' # subflow)) =>
                (HasSession(user) /\ user.isVerified = Bool(TRUE))]_vars

\* A visitor without a session whose auth record says phone unverified attempted a
\* booking and was sent to the login page.
C11_Witness ==
    /\ attempts = 1
    /\ user = Null
    /\ authUser = AuthRec(Bool(FALSE))
    /\ effects = <<Toast(LoginNotice), Navigate("/login", Undefined)>>
    /\ ~showPhoneModal

\* C12: an attempt by a user with a session, a verified identity and a phone flag
\* that is true or undefined emits exactly one handoff, whose state carries
\* spaceId, userId, startTime, endTime, perHour, totalAmount and durationHours,
\* and then calls onClose exactly once; totalAmount and durationHours are null
\* when no valid duration is selected.
C12_HandoffPayload ==
    [][(Attempted /\ HasSession(user) /\ user.isVerified = Bool(TRUE)
          /\ PhoneVerified(authUser) \in {Bool(TRUE), Undefined}) =>
          /\ SubSeq(effects', 1, Len(effects)) = effects
          /\ Len(Emitted) = 2
          /\ IsHandoff(Emitted[1])
          /\ Emitted[2] = OnClose
          /\ Handoffs(effects') = Handoffs(effects) + 1
          /\ Closes(effects') = Closes(effects) + 1
          /\ DOMAIN Emitted[1].state =
                {"spaceId", "userId", "startTime", "endTime", "perHour", "totalAmount",
                 "durationHours"}
          /\ Emitted[1].state.spaceId = space._id
          /\ Emitted[1].state.userId \in {user._id, user.id} \ {Undefined}
          /\ Emitted[1].state.startTime = (IF startTime = Undefined THEN Null ELSE startTime)
          /\ Emitted[1].state.endTime = (IF endTime = Undefined THEN Null ELSE endTime)
          /\ Emitted[1].state.perHour.t = "number"
          /\ ~ValidWindow => /\ Emitted[1].state.totalAmount = Null
                             /\ Emitted[1].state.durationHours = Null
          /\ ValidWindow => /\ Emitted[1].state.totalAmount.t = "number"
                            /\ Emitted[1].state.durationHours.t = "number"]_vars

\* An eligible user with no time window selected attempted a booking: one handoff
\* with a null total and a null duration, then onClose.
C12_Witness ==
    /\ attempts = 1
    /\ Len(effects) = 2
    /\ IsHandoff(effects[1])
    /\ effects[1].state.totalAmount = Null
    /\ effects[1].state.durationHours = Null
    /\ effects[1].state.startTime = Null
    /\ effects[2] = OnClose
    /\ PhoneVerified(authUser) = Undefined

\* What the caller of an attempt can observe for each of the four outcomes.
Outcomes == {"login", "identity", "phone", "handoff"}
Observed(o) ==
    CASE o = "login"    -> Emitted = <<Toast(LoginNotice), Navigate("/login", Undefined)>>
      [] o = "identity" -> Emitted = <<Toast(KycNotice)>>
      [] o = "phone"    -> Emitted = <<>> /\ showPhoneModal'
      [] o = "handoff"  -> Len(Emitted) = 2 /\ IsHandoff(Emitted[1]) /\ Emitted[2] = OnClose

\* C13: every attempt shows exactly one of four observations (login notice and
\* redirect; identity notice; nothing emitted and the phone modal open; handoff
\* and close), no two of which coincide, and each blocking observation occurs
\* exactly for its own reason.
C13_FourDistinctOutcomes ==
    [][Attempted =>
          /\ Cardinality({o \in Outcomes : Observed(o)}) = 1
          /\ Observed("login") <=> ~HasSession(user)
          /\ Observed("identity") <=> (HasSession(user) /\ ~Truthy(user.isVerified))
          /\ Observed("phone") <=>
                (HasSession(user) /\ Truthy(user.isVerified)
                   /\ PhoneVerified(authUser) = Bool(FALSE))
          /\ LoginNotice # KycNotice]_vars

\* Two attempts with different outcomes: the identity notice, then, the identity
\* having been verified, a handoff.
C13_Witness ==
    /\ attempts = 2
    /\ Len(effects) = 3
    /\ effects[1] = Toast(KycNotice)
    /\ IsHandoff(effects[2])
    /\ effects[3] = OnClose

(***************************************************************************)
(* Properties of the price panel (checked under PriceSpec).                *)
(***************************************************************************)
\* q is x rounded to two decimals: a whole number of cents at most half a cent away.
RoundsTo(q, x) ==
    /\ IsFinite(q)
    /\ 100 % q.d = 0
    /\ NumLeq(NumSub(q, x), Decimal(1, 200))
    /\ NumLeq(NumSub(x, q), Decimal(1, 200))

\* The entity carries a numeric base price b >= 0 in priceParking and a numeric
\* discount d in [0, 100] in discount.
BaseAndDiscountInRange ==
    /\ space.priceParking.t = "number" /\ IsFinite(space.priceParking)
    /\ NumLeq(Num(0), space.priceParking)
    /\ space.discount.t = "number" /\ IsFinite(space.discount)
    /\ NumLeq(Num(0), space.discount) /\ NumLeq(space.discount, Num(100))
DiscountedExactly ==
    NumMul(space.priceParking, NumSub(Num(1), NumDiv(space.discount, Num(100))))

\* C14 as stated: for b >= 0 and d in [0, 100], discountedPrice is b*(1-d/100)
\* rounded to two decimals and is at most b.
C14_AsStated ==
    BaseAndDiscountInRange =>
        /\ RoundsTo(computeDiscountedPrice(space).discountedPrice, DiscountedExactly)
        /\ NumLeq(computeDiscountedPrice(space).discountedPrice, space.priceParking)

\* C14: for b >= 0 and d in [0, 100], discountedPrice is b*(1-d/100) rounded to
\* two decimals and is at most b rounded to two decimals, the basePrice returned
\* with it.
C14_DiscountedPrice ==
    BaseAndDiscountInRange =>
        /\ RoundsTo(computeDiscountedPrice(space).discountedPrice, DiscountedExactly)
        /\ RoundsTo(computeDiscountedPrice(space).basePrice, space.priceParking)
        /\ NumLeq(computeDiscountedPrice(space).discountedPrice,
                  computeDiscountedPrice(space).basePrice)

\* A base of 0.006 without a discount: the discounted price is 0.01, above the base
\* and equal to the rounded base.
C14_Witness ==
    /\ space.priceParking = Decimal(6, 1000)
    /\ space.discount = Num(0)
    /\ computeDiscountedPrice(space).discountedPrice = Decimal(1, 100)
    /\ computeDiscountedPrice(space).basePrice = Decimal(1, 100)

\* C15 as stated: hasDiscount is true exactly when the clamped percent is positive
\* and the discounted price, rounded to two decimals, is strictly less than the
\* base price rounded to two decimals.
C15_HasDiscountOnRoundedPrices ==
    computeDiscountedPrice(space).hasDiscount <=>
        /\ NumLess(Num(0), computeDiscountedPrice(space).discountPercent)
        /\ NumLess(computeDiscountedPrice(space).discountedPrice,
                   computeDiscountedPrice(space).basePrice)

\* A base of 10.004 with a discount of 0.01 percent: both prices round to 10.00,
\* and hasDiscount is true.
C15_Witness ==
    /\ space.priceParking = Decimal(10004, 1000)
    /\ space.discount = Decimal(1, 100)
    /\ computeDiscountedPrice(space).basePrice = Num(10)
    /\ computeDiscountedPrice(space).discountedPrice = Num(10)
    /\ computeDiscountedPrice(space).hasDiscount

\* The example of the claim: a base of 100 with a discount of 0.001 percent rounds
\* to the base and has no discount.
C15_Example ==
    (space.priceParking = Num(100) /\ space.discount = Decimal(1, 1000)) =>
        /\ computeDiscountedPrice(space).discountedPrice = Num(100)
        /\ ~computeDiscountedPrice(space).hasDiscount

\* The raw discount of the entity: discount, or discountPercent when discount is
\* absent, and the percentage each raw value used here stands for.
RawDiscount ==
    IF space.discount \in {Undefined, Null} THEN space.discountPercent ELSE space.discount
ExpectedPercent(raw) ==
    CASE raw \in {Undefined, Null, Bool(TRUE), NaN, Infinity, Str("abc"), Str(""),
                  Num(-5), DiscountObject(Undefined, Undefined, Undefined),
                  DiscountObject(Str("abc"), Num(30), Undefined)}      -> Num(0)
      [] raw \in {Num(150), Str("150%"),
                  DiscountObject(Undefined, Undefined, Num(400))}      -> Num(100)
      [] raw = Str("10%")                                              -> Num(10)
      [] raw = DiscountObject(Num(20), Undefined, Undefined)           -> Num(20)
      [] raw = DiscountObject(Undefined, Num(30), Num(40))             -> Num(30)
      [] OTHER                                                         -> raw

\* C16: whatever the raw discount is (absent, a number, a string with a percent
\* sign, an object with percent, value or amount, anything else), discountPercent
\* is a finite number in [0, 100]: the recognised finite value clamped to that
\* range, and 0 for an unrecognised or non-finite one.
C16_DiscountPercentClamped ==
    /\ IsFinite(computeDiscountedPrice(space).discountPercent)
    /\ NumLeq(Num(0), computeDiscountedPrice(space).discountPercent)
    /\ NumLeq(computeDiscountedPrice(space).discountPercent, Num(100))
    /\ computeDiscountedPrice(space).discountPercent = ExpectedPercent(RawDiscount)

\* A discount given as "150%" is clamped to 100.
C16_Witness ==
    /\ space.discount = Str("150%")
    /\ computeDiscountedPrice(space).discountPercent = Num(100)

\* The price the panel works with: the one computed upstream when the entity
\* carries it, else the one computed here; and the per-hour price it implies.
PanelPrice ==
    IF space.__price \in {Undefined, Null} THEN computeDiscountedPrice(space) ELSE space.__price
PanelPerHour ==
    IF PanelPrice.hasDiscount THEN PanelPrice.discountedPrice ELSE PanelPrice.basePrice

\* C17: with both timestamps present and parsable and the end after the start,
\* durationHours is the minutes between them divided by 60 and totalAmount is
\* perHour * durationHours rounded to two decimals; otherwise both are null.
\* perHour is the discounted price when hasDiscount is true, else the base price.
C17_DurationAndTotal ==
    /\ PerHour(space) = PanelPerHour
    /\ ValidWindow =>
          /\ computeDurationHours(startTime, endTime) =
                Frac(TimeOf(endTime.s).n - TimeOf(startTime.s).n, 60)
          /\ RoundsTo(TotalAmount(space, startTime, endTime),
                      NumMul(PanelPerHour, computeDurationHours(startTime, endTime)))
    /\ ~ValidWindow =>
          /\ computeDurationHours(startTime, endTime) = Null
          /\ TotalAmount(space, startTime, endTime) = Null

\* Twenty minutes at 100 per hour less 10 percent: a third of an hour, total 30.
C17_Witness ==
    /\ space.priceParking = Num(100)
    /\ space.discount = Num(10)
    /\ space.__price = Undefined
    /\ startTime = Str("2024-01-01T10:00:00Z")
    /\ endTime = Str("2024-01-01T10:20:00Z")
    /\ computeDurationHours(startTime, endTime) = Frac(1, 3)
    /\ PerHour(space) = Num(90)
    /\ TotalAmount(space, startTime, endTime) = Num(30)

(***************************************************************************)
(* Properties of the image strip (checked under ImageSpec).                *)
(***************************************************************************)
\* The photo references of the entity, as a sequence: the items of an array, the
\* single reference, or none when the field is absent.
PhotoRefs ==
    IF space.photos.t = "array" THEN space.photos.items
    ELSE IF space.photos \in {Undefined, Null} THEN <<>>
    ELSE <<space.photos>>

\* C18 as stated: the resolved image sequence is never empty; when no reference
\* resolves to a URL it is exactly the placeholder.
C18_ImagesNeverEmpty ==
    /\ Len(images(space, env)) >= 1
    /\ (\A i \in DOMAIN PhotoRefs : makeUrl(PhotoRefs[i], env) = Null)
          => images(space, env) = <<Placeholder>>

\* The entity's photos field is an empty array and no image is resolved.
C18_Witness ==
    /\ space.photos = Array(<<>>)
    /\ images(space, env) = <<>>

\* The URL each photo reference used here stands for, given whether a cloud name
\* is configured (the API base is https://x.test, the cloud name "demo").
ExpectedUrl(p, cloud) ==
    CASE p \in {Undefined, Null, Str(""),
                PhotoObject(Undefined, Str("folder/d.jpg"), Undefined),
                PhotoObject(Undefined, Undefined, Undefined)}
              -> Null
      [] p \in {Str("https://cdn.test/a.jpg"),
                PhotoObject(Str("https://cdn.test/a.jpg"), Str("/static/c.jpg"), Str("abc.jpg"))}
              -> Str("https://cdn.test/a.jpg")
      [] p \in {Str("http://cdn.test/b.jpg"),
                PhotoObject(Undefined, Str("http://cdn.test/b.jpg"), Str("abc.jpg"))}
              -> Str("http://cdn.test/b.jpg")
      [] p \in {Str("/static/c.jpg"),
                PhotoObject(Undefined, Str("/static/c.jpg"), Str("abc.jpg"))}
              -> Str("https://x.test/static/c.jpg")
      [] p = Str("folder/d.jpg")
              -> IF cloud THEN Str("https://res.cloudinary.com/demo/image/upload/folder/d.jpg")
                 ELSE Str("https://x.test/uploads/folder/d.jpg")
      [] p \in {Str("abc.jpg"),
                PhotoObject(Undefined, Str("folder/d.jpg"), Str("abc.jpg")),
                PhotoObject(Undefined, Undefined, Str("abc.jpg"))}
              -> Str("https://x.test/uploads/abc.jpg")
ExpectedUrls ==
    [i \in DOMAIN PhotoRefs |-> ExpectedUrl(PhotoRefs[i], env.CLOUD_NAME = "demo")]
IsUrl(u) == u # Null

\* C19: each photo reference resolves by the first rule that matches (http(s)
\* string verbatim; '/'-prefixed string after the API base; string with a '/'
\* under the cloud URL when a cloud name is configured; other string under
\* <API base>/uploads/; object by url, then absolute or root-relative path, then
\* filename), and the resolved URLs keep the order of the references.
C19_FirstMatchingRule ==
    (space.photos # Array(<<>>) /\ Truthy(space.photos)) =>
        images(space, env) = SelectSeq(ExpectedUrls, IsUrl)

\* With a cloud name configured, a root-relative string and a bare path resolve,
\* in that order, to the API base and to the cloud URL.
C19_Witness ==
    /\ env.CLOUD_NAME = "demo"
    /\ space.photos = Array(<<Str("/static/c.jpg"), Str("folder/d.jpg")>>)
    /\ images(space, env) =
          <<Str("https://x.test/static/c.jpg"),
            Str("https://res.cloudinary.com/demo/image/upload/folder/d.jpg")>>

(***************************************************************************)
(* Properties of response handling (checked under ResponseSpec).           *)
(***************************************************************************)
\* The body carries a stats object; it carries one with a numeric avg or count.
StatsPresent(data) == data.kind = "object" /\ data.stats.t = "object"
NumericStats(data) ==
    StatsPresent(data) /\ (data.stats.avg.t = "number" \/ data.stats.count.t = "number")
\* What a stats field or a score counts as: a number as itself, a numeric string
\* as its number, anything else (absent, null, other text) as 0.
ValueOrZero(v) ==
    CASE v.t = "number" -> v
      [] v = Str("4")   -> Num(4)
      [] v = Str("7")   -> Num(7)
      [] OTHER          -> Num(0)
RECURSIVE ScoreTotal(_)
ScoreTotal(rs) ==
    IF rs = <<>> THEN Num(0) ELSE NumAdd(ValueOrZero(Head(rs).score), ScoreTotal(Tail(rs)))
MeanScore(rs) == Frac(ScoreTotal(rs).n, ScoreTotal(rs).d * Len(rs))
\* The completion of request i with body `data` in this step was applied.
AppliedNow(i, data) == FetchFulfilled(i, data) /\ requests'[i].settled = "applied"

C21_SummaryInRange ==
    /\ IsFinite(ratingAvg)
    /\ NumLeq(Num(0), ratingAvg) /\ NumLeq(ratingAvg, Num(5))
    /\ IsFinite(ratingCount)
    /\ ratingCount.d = 1 /\ ratingCount.n >= 0

\* A response with stats {avg: 9, count: -1} was applied: the visible average is
\* 9 and the visible count is -1.
C21_Witness ==
    /\ writer # 0
    /\ requests[writer].settled = "applied"
    /\ ratingAvg = Num(9)
    /\ ratingCount = Num(-1)

\* The records of a body after normalisation, in response order; whether a review
\* carries a timestamp, and its time in days.
NormalizedRecords(data) ==
    [i \in DOMAIN RatingsArray(data) |-> NormalizeReview(RatingsArray(data)[i])]
HasStamp(rev) == rev.createdAt # Undefined
Stamp(rev) == DateToTime(rev.createdAt.s)
StampOrEpoch(rev) == IF HasStamp(rev) THEN Stamp(rev) ELSE Num(0)
\* seq holds the elements of src, each as often as src does.
PermutationOf(seq, src) ==
    /\ Len(seq) = Len(src)
    /\ \A i \in DOMAIN src :
          Cardinality({j \in DOMAIN seq : seq[j] = src[i]})
             = Cardinality({j \in DOMAIN src : src[j] = src[i]})

DisplayedAuthor(name, id) == [t |-> "object", name |-> name, _id |-> id]
ExpectedAuthor(src) ==
    CASE src = Author(Str("Ann"), Str("Ann Lee"), Str("ann@x.test"), Str("u1"))
              -> DisplayedAuthor(Str("Ann"), Str("u1"))
      [] src = Author(Undefined, Str("Bo Diaz"), Str("bo@x.test"), Str("u2"))
              -> DisplayedAuthor(Str("Bo Diaz"), Str("u2"))
      [] src = Author(Str(""), Undefined, Str("cy@x.test"), Str("u3"))
              -> DisplayedAuthor(Str("cy@x.test"), Str("u3"))
      [] src = Author(Undefined, Undefined, Undefined, Str("u4"))
              -> DisplayedAuthor(Str("Anonymous"), Str("u4"))
      [] src \in {Str("u1"), Str("")} -> src
      [] OTHER -> Null

\* C23: the author shown for each rating record is the source's display name,
\* else its email, else "Anonymous" when the source is an object; the source
\* itself when it is a string; null when it is absent.
C23_AuthorDerivation ==
    [][\A i \in DOMAIN requests : \A data \in ResponseBodies :
          (AppliedNow(i, data) /\ Len(RatingsArray(data)) > 0) =>
              /\ Len(reviews') = Len(RatingsArray(data))
              /\ \A j \in DOMAIN reviews' :
                    \E k \in DOMAIN RatingsArray(data) :
                        /\ RatingsArray(data)[k]._id = reviews'[j]._id
                        /\ reviews'[j].fromUser =
                              ExpectedAuthor(RatingsArray(data)[k].fromUser)]_vars

\* Three reviews are shown whose authors have a full name only, an email only,
\* and nothing: "Bo Diaz", "cy@x.test", "Anonymous".
C23_Witness ==
    /\ Len(reviews) = 3
    /\ reviews[1].fromUser = DisplayedAuthor(Str("Bo Diaz"), Str("u2"))
    /\ reviews[2].fromUser = DisplayedAuthor(Str("cy@x.test"), Str("u3"))
    /\ reviews[3].fromUser = DisplayedAuthor(Str("Anonymous"), Str("u4"))

(***************************************************************************)
(* Properties of the carousel (checked under CarouselSpec).                *)
(***************************************************************************)
\* C24 as stated: the carousel position is zero after every step that changes
\* the selected entity or the entity's resolved image list.
C24_ResetOnEntityOrImagesChange ==
    [][(space'._id # space._id \/ images(space', env') # images(space, env))
          => currentImageIndex' = 0]_vars

\* The entity record was refreshed with a single photo while the third of three
\* was shown: the position is still 2.
C24_Witness ==
    /\ space.photos = Str("abc.jpg")
    /\ currentImageIndex = 2

\* C28 as stated: the carousel index is always an integer with
\* 0 <= index < number of resolved images, and a next-image step is undone by
\* previous-image and the other way round, wrapping at both ends.
C28_IndexInRangeAndRoundTrip ==
    /\ [](currentImageIndex \in 0 .. (Len(images(space, env)) - 1))
    /\ [][/\ nextImage =>
               (currentImageIndex' - 1 + Len(images(space, env))) % Len(images(space, env))
                  = currentImageIndex
          /\ prevImage =>
               (currentImageIndex' + 1) % Len(images(space, env)) = currentImageIndex]_vars

\* The entity's photo list is empty, so there is no image for index 0.
C28_Witness ==
    /\ space.photos = Array(<<>>)
    /\ images(space, env) = <<>>
    /\ currentImageIndex = 0

\* C25: a successful response whose body is neither an array nor an object with
\* a `ratings` array, and has no stats object, is handled as empty data: the
\* failure path is not taken, and when the response is for the current
\* selection the visible state becomes the cached rating (0 when the entity has
\* none), count 0 and no reviews.
C25_MalformedIsEmpty ==
    [][\A i \in DOMAIN requests : \A data \in MalformedResponses :
          FetchFulfilled(i, data) =>
              /\ requests'[i].settled # "failed"
              /\ ~requests[i].aborted =>
                    /\ requests'[i].settled = "applied"
                    /\ ratingAvg' = (IF requests[i].space.rating = Undefined
                                       THEN Num(0) ELSE requests[i].space.rating)
                    /\ ratingCount' = Num(0)
                    /\ reviews' = <<>>]_vars

\* The request of the current selection, an entity with cached rating 3, was
\* answered and applied as empty data.
C25_Witness ==
    /\ writer # 0
    /\ writer = Current
    /\ requests[writer].settled = "applied"
    /\ space.rating = Num(3)
    /\ ratingAvg = Num(3)
    /\ ratingCount = Num(0)
    /\ reviews = <<>>

\* C26 as stated: refreshUser is called at most once for each distinct user
\* id, and never while unauthenticated or without a user id.
C26_OncePerUserId ==
    /\ [](\A j, k \in DOMAIN refreshCalls :
            refreshCalls[j].id = refreshCalls[k].id => j = k)
    /\ [][Len(refreshCalls') > Len(refreshCalls) =>
            /\ isAuthenticated'
            /\ UserId(navUser') \in {Str("A"), Str("B")}
            /\ refreshCalls'[Len(refreshCalls')].id = UserId(navUser')]_vars

\* User A, then user B, then user A again: refreshUser was called for A twice.
C26_Witness ==
    /\ Len(refreshCalls) = 3
    /\ refreshCalls[1].id = Str("A")
    /\ refreshCalls[2].id = Str("B")
    /\ refreshCalls[3].id = Str("A")
    /\ isAuthenticated
    /\ lastRef = Str("A")

\* C27: when the phone-verification sub-flow is closed without success, only the
\* modal flag is cleared: handleBookNow is not called again, nothing is emitted
\* (no handoff, no navigation, no notice, no onClose of the summary view), the
\* view stays mounted with the same user, and the rating state is unchanged.
C27_CloseOnlyClearsModal ==
    [][(showPhoneModal /\ subflow' = SubflowClosed("close")) =>
          /\ ~showPhoneModal'
          /\ attempts' = attempts
          /\ effects' = effects
          /\ mounted' = mounted
          /\ <<user, authUser>>' = <<user, authUser>>
          /\ ratingVars' = ratingVars]_vars

\* The sub-flow was opened by one attempt, the phone was verified inside it, and
\* it was then closed without reporting success: no handoff was emitted.
C27_Witness ==
    /\ subflow = SubflowClosed("close")
    /\ ~showPhoneModal
    /\ attempts = 1
    /\ effects = <<>>
    /\ PhoneVerified(authUser) = Bool(TRUE)
    /\ Gate(user, authUser) = "Eligible"

\* C29: once the selection no longer changes and its request has completed, the
\* visible state is, from some point on and for ever, the one that completion
\* wrote: the normalized result of the response on success, the cached-rating
\* fallback on failure. It is written at the completion itself, and no later
\* step other than a new selection, in particular no completion of an earlier
\* request, changes it.
C29_FinalCompletionDetermines ==
    /\ <>[]((mounted /\ Current # 0) =>
              /\ requests[Current].settled \in {"applied", "failed"}
              /\ writer = Current
              /\ requests[Current].settled = "failed" =>
                    Visible = Fallback(requests[Current].space)
              /\ requests[Current].settled = "applied" =>
                    \E data \in Responses :
                        /\ ~Throws(data)
                        /\ ratingAvg = Summary(data, requests[Current].space).avg
                        /\ ratingCount = Summary(data, requests[Current].space).count
                        /\ reviews = Normalized(data))
    /\ [][(Current # 0 /\ Current' = Current
            /\ requests[Current].settled \in {"applied", "failed"}) =>
              Visible' = Visible]_vars

\* A was selected, then B; B's request completed first and was applied, and A's
\* request completed after it.
C29_Witness ==
    /\ mounted
    /\ Len(requests) = 2
    /\ Current = 2
    /\ writer = 2
    /\ requests[2].settled = "applied"
    /\ requests[1].settled = "suppressed"
    /\ requests[2].space = Space(Str("B"), Num(4))
    /\ ratingAvg = Num(2)
    /\ ratingCount = Num(7)

====
